---- MODULE Spec2Model ----
(***************************************************************************)
(* pg_opendal (src/src/lib.rs): ten SQL-callable functions, each of which  *)
(* parses a JSON configuration, builds an OpenDAL operator, creates a      *)
(* Tokio runtime and drives one asynchronous backend operation.            *)
(*                                                                         *)
(* The backend (the storage service behind opendal::Operator) is the       *)
(* environment of the program.  It is modelled as one store of file paths  *)
(* that persists across operators (as a filesystem root or a bucket does), *)
(* whose calls may fail with an injected fault.  Error messages are        *)
(* modelled as the sequence of the pieces format!() joins.                 *)
(***************************************************************************)
EXTENDS Integers, Sequences, FiniteSets, TLC

\* ------------------------------------------------------------- bounds
\* longest text content a caller writes, in characters
MaxLen == 1
\* number of distinct modification times the backend may report
MaxTime == 1

\* ----------------------------------------------------------- universe
\* characters of the written texts: U+0041 (one byte in UTF-8) and U+00E9 (two)
Chars == {65, 233}
Texts == UNION {[1..n -> Chars] : n \in 0..MaxLen}
\* bytes another client of the same backend may have stored: a truncated
\* two-byte UTF-8 sequence
ForeignData == {<<195>>}

FilePaths == {"d/a", "d/b"}
Dir == "d/"
StatPaths == FilePaths \cup {Dir}
\* the name and path the backend's lister reports for each file under Dir,
\* in the backend's enumeration order
DirEntries == <<[name |-> "a", path |-> "d/a"], [name |-> "b", path |-> "d/b"]>>

Registry == {"fs"}
Services == {"fs", "not-a-real-scheme"}

\* -------------------------------------------------------- text <-> bytes
\* str::as_bytes: the UTF-8 encoding of a text (characters below U+0800)
EncodeChar(c) ==
    IF c < 128 THEN <<c>> ELSE <<192 + (c \div 64), 128 + (c % 64)>>

RECURSIVE as_bytes_latin1(_)
as_bytes_latin1(s) ==
    IF s = <<>> THEN <<>> ELSE <<Head(s)>> \o as_bytes_latin1(Tail(s))

RECURSIVE as_bytes(_)
as_bytes(s) ==
    IF s = <<>> THEN <<>> ELSE EncodeChar(Head(s)) \o as_bytes(Tail(s))

\* String::from_utf8: validates and decodes; the model's bytes are below 0xE0,
\* so only the one- and two-byte forms occur
RECURSIVE from_utf8(_)
from_utf8(b) ==
    IF b = <<>> THEN [ok |-> TRUE, val |-> <<>>]
    ELSE IF b[1] < 128
    THEN LET r == from_utf8(Tail(b))
         IN  IF r.ok THEN [ok |-> TRUE, val |-> <<b[1]>> \o r.val] ELSE r
    ELSE IF b[1] \in 194..223 /\ Len(b) >= 2 /\ b[2] \in 128..191
    THEN LET r == from_utf8(SubSeq(b, 3, Len(b)))
         IN  IF r.ok
             THEN [ok |-> TRUE,
                   val |-> <<(b[1] - 192) * 64 + (b[2] - 128)>> \o r.val]
             ELSE r
    ELSE [ok |-> FALSE, val |-> <<>>]

\* ----------------------------------------------------------------- JSON
\* serde_json::Value: t is the variant; s the payload of a scalar; m the
\* members of an object (key -> member, a member being [t, s])
Scalar(t, s) == [t |-> t, s |-> s]
Members == {Scalar("string", "/tmp"), Scalar("string", "x"),
            Scalar("number", "5"), Scalar("bool", "true"),
            Scalar("null", ""), Scalar("array", "[]"), Scalar("object", "{}")}
Keys == {"root", "k"}
Object(m) == [t |-> "object", s |-> "", m |-> m]
NonObject(t, s) == [t |-> t, s |-> s, m |-> <<>>]
JsonObjects == UNION {{Object(m) : m \in [K -> Members]} : K \in SUBSET Keys}
JsonNonObjects == {NonObject("string", "x"), NonObject("number", "5"),
                   NonObject("bool", "true"), NonObject("null", ""),
                   NonObject("array", "[]")}
JsonValues == JsonObjects \cup JsonNonObjects

AllStrings(value) == \A k \in DOMAIN value.m : value.m[k].t = "string"

jsonb_to_hashmap_lenient(value) ==
    IF value.t = "object"
    THEN LET S == {k \in DOMAIN value.m : value.m[k].t = "string"}
         IN  [ok |-> TRUE, map |-> [k \in S |-> value.m[k].s], err |-> <<>>]
    ELSE [ok |-> FALSE, map |-> <<>>, err |-> <<"Config must be a JSON object">>]

jsonb_to_hashmap(value) ==
    IF value.t = "object"
    THEN IF AllStrings(value)
         THEN [ok |-> TRUE,
               map |-> [k \in DOMAIN value.m |-> value.m[k].s],
               err |-> <<>>]
         ELSE [ok |-> FALSE, map |-> <<>>,
               err |-> <<"Config values must be strings">>]
    ELSE [ok |-> FALSE, map |-> <<>>, err |-> <<"Config must be a JSON object">>]

\* ------------------------------------------------------------ results
Ok(v) == [ok |-> TRUE, val |-> v, err |-> <<>>]
Err(m) == [ok |-> FALSE, val |-> <<>>, err |-> m]

\* ------------------------------------------------- calls' configurations
GoodConfig == Object("root" :> Scalar("string", "/tmp"))
BadValueConfig ==
    Object(("root" :> Scalar("string", "/tmp")) @@ ("k" :> Scalar("number", "5")))
BadRootConfig == NonObject("array", "[]")
CallConfigs == {GoodConfig, BadValueConfig, BadRootConfig}

\* One call's backend descriptor and the outcomes of the two steps the code
\* does not decide itself: Operator::via_iter (init) and Runtime::new (rt).
\* A step the call never reaches has the outcome "ok".
Scenarios ==
    {sc \in [service : Services, config : CallConfigs,
             init : {"ok", "fail"}, rt : {"ok", "fail"}] :
        /\ ~jsonb_to_hashmap(sc.config).ok => sc.init = "ok" /\ sc.rt = "ok"
        /\ sc.service \notin Registry => sc.init = "ok" /\ sc.rt = "ok"
        /\ sc.init = "fail" => sc.rt = "ok"}
GoodScenario == [service |-> "fs", config |-> GoodConfig, init |-> "ok", rt |-> "ok"]
Faults == {"none", "Unexpected"}

\* ---------------------------------------------------------- the prelude
create_operator_default(service, config, init) ==
    IF init = "fail" THEN [ok |-> FALSE, err |-> <<"ConfigInvalid">>]
    ELSE [ok |-> TRUE, err |-> <<>>]

create_operator(service, config, init) ==
    IF service \notin Registry
    THEN [ok |-> FALSE,
          err |-> <<"Invalid service type", service, "unsupported scheme">>]
    ELSE IF init = "fail" THEN [ok |-> FALSE, err |-> <<"ConfigInvalid">>]
    ELSE [ok |-> TRUE, err |-> <<>>]

\* jsonb_to_hashmap, then create_operator: the first two statements of every
\* public function
Resolve_unchecked(sc) ==
    LET op == create_operator(sc.service, <<>>, sc.init)
    IN  IF ~op.ok
        THEN [ok |-> FALSE, built |-> FALSE,
              err |-> <<"Failed to create operator">> \o op.err]
        ELSE [ok |-> TRUE, built |-> TRUE, err |-> <<>>]

Resolve(sc) ==
    LET cm == jsonb_to_hashmap(sc.config)
    IN  IF ~cm.ok
        THEN [ok |-> FALSE, built |-> FALSE,
              err |-> <<"Failed to parse config">> \o cm.err]
        ELSE LET op == create_operator(sc.service, cm.map, sc.init)
             IN  IF ~op.ok
                 THEN [ok |-> FALSE, built |-> FALSE,
                       err |-> <<"Failed to create operator">> \o op.err]
                 ELSE [ok |-> TRUE, built |-> TRUE, err |-> <<>>]

\* ... then Runtime::new: the third statement of every function but capability
Prelude(sc) ==
    LET r == Resolve(sc)
    IN  IF ~r.ok THEN [ok |-> FALSE, built |-> FALSE, rt |-> FALSE, err |-> r.err]
        ELSE IF sc.rt = "fail"
        THEN [ok |-> FALSE, built |-> TRUE, rt |-> FALSE,
              err |-> <<"Failed to create Tokio runtime", "os error">>]
        ELSE [ok |-> TRUE, built |-> TRUE, rt |-> TRUE, err |-> <<>>]

\* the faults the backend may answer a call of this scenario with
FaultsOf(sc) == IF Prelude(sc).ok THEN Faults ELSE {"none"}

\* ---------------------------------------------------------- the backend
\* a path of the store: absent, or bytes with the modification time the
\* backend reports for it (0: it reports none)
Absent == [present |-> FALSE, data |-> <<>>, mtime |-> 0]
File(b, t) == [present |-> TRUE, data |-> b, mtime |-> t]
Times == 0..MaxTime

\* opendal Metadata of a path
FileMeta(f) ==
    [content_length |-> Len(f.data), is_file |-> TRUE, is_dir |-> FALSE,
     mtime |-> f.mtime]
DirMeta == [content_length |-> 0, is_file |-> FALSE, is_dir |-> TRUE, mtime |-> 0]

\* Operator::read
BackendRead(st, p, fault) ==
    IF fault # "none" THEN [out |-> fault, data |-> <<>>]
    ELSE IF st[p].present THEN [out |-> "ok", data |-> st[p].data]
    ELSE [out |-> "NotFound", data |-> <<>>]

\* Operator::write: creates or replaces
BackendWrite(st, p, b, t, fault) ==
    IF fault # "none" THEN [out |-> fault, st |-> st]
    ELSE [out |-> "ok", st |-> [st EXCEPT ![p] = File(b, t)]]

\* Operator::stat
BackendStat(st, ds, p, fault) ==
    IF fault # "none" THEN [out |-> fault, meta |-> DirMeta]
    ELSE IF p \in FilePaths /\ st[p].present
    THEN [out |-> "ok", meta |-> FileMeta(st[p])]
    ELSE IF p \in ds THEN [out |-> "ok", meta |-> DirMeta]
    ELSE [out |-> "NotFound", meta |-> DirMeta]

\* Operator::delete: deleting an absent path succeeds
BackendDelete(st, p, fault) ==
    IF fault # "none" THEN [out |-> fault, st |-> st]
    ELSE [out |-> "ok", st |-> [st EXCEPT ![p] = Absent]]

\* Operator::create_dir
BackendCreateDir(ds, p, fault) ==
    IF fault # "none" THEN [out |-> fault, ds |-> ds]
    ELSE [out |-> "ok", ds |-> ds \cup {p}]

\* Operator::copy
BackendCopy(st, s, t, fault) ==
    IF fault # "none" THEN [out |-> fault, st |-> st]
    ELSE IF s = t THEN [out |-> "IsSameFile", st |-> st]
    ELSE IF ~st[s].present THEN [out |-> "NotFound", st |-> st]
    ELSE [out |-> "ok", st |-> [st EXCEPT ![t] = st[s]]]

\* Operator::rename
BackendRename(st, s, t, fault) ==
    IF fault # "none" THEN [out |-> fault, st |-> st]
    ELSE IF s = t THEN [out |-> "IsSameFile", st |-> st]
    ELSE IF ~st[s].present THEN [out |-> "NotFound", st |-> st]
    ELSE [out |-> "ok", st |-> [st EXCEPT ![t] = st[s], ![s] = Absent]]

\* OperatorInfo::full_capability of the fs service
FullCapability ==
    [read |-> TRUE, write |-> TRUE, list |-> TRUE, stat |-> TRUE,
     delete |-> TRUE, copy |-> TRUE, rename |-> TRUE, create_dir |-> TRUE,
     presign |-> FALSE, blocking |-> TRUE]

\* ------------------------------------------------- the async operations
\* DateTime::to_rfc3339 of the model's time t
to_rfc3339(t) == <<"1970-01-01T00:00:0", t, "+00:00">>

\* one backend call in a call's log: the method, its path, its outcome
Io(call, p, out) == [call |-> call, path |-> p, out |-> out]
\* what an async operation leaves: its result, its backend calls, the backend
Outcome(res, io, st, ds) == [res |-> res, io |-> io, st |-> st, ds |-> ds]

do_read_async(st, ds, path, fault) ==
    LET r == BackendRead(st, path, fault)
        io == <<Io("read", path, r.out)>>
    IN  IF r.out = "ok"
        THEN LET u == from_utf8(r.data)
             IN  IF u.ok THEN Outcome(Ok(u.val), io, st, ds)
                 ELSE Outcome(Err(<<"Failed to convert data to UTF-8",
                                    "invalid utf-8 sequence">>), io, st, ds)
        ELSE Outcome(Err(<<"Failed to read file", path, r.out>>), io, st, ds)

do_write_async(st, ds, path, content, t, fault) ==
    LET r == BackendWrite(st, path, content, t, fault)
        io == <<Io("write", path, r.out)>>
    IN  IF r.out = "ok" THEN Outcome(Ok(TRUE), io, r.st, ds)
        ELSE Outcome(Err(<<"Failed to write to", path, r.out>>), io, r.st, ds)

do_exists_async_swallow(st, ds, path, fault) ==
    LET r == BackendStat(st, ds, path, fault)
        io == <<Io("stat", path, r.out)>>
    IN  IF r.out = "ok" THEN Outcome(Ok(TRUE), io, st, ds)
        ELSE Outcome(Ok(FALSE), io, st, ds)

do_exists_async_inverted(st, ds, path, fault) ==
    LET r == BackendStat(st, ds, path, fault)
        io == <<Io("stat", path, r.out)>>
    IN  IF r.out = "ok" THEN Outcome(Ok(FALSE), io, st, ds)
        ELSE IF r.out = "NotFound" THEN Outcome(Ok(TRUE), io, st, ds)
        ELSE Outcome(Err(<<"Failed to check existence of", path, r.out>>),
                     io, st, ds)

do_exists_async(st, ds, path, fault) ==
    LET r == BackendStat(st, ds, path, fault)
        io == <<Io("stat", path, r.out)>>
    IN  IF r.out = "ok" THEN Outcome(Ok(TRUE), io, st, ds)
        ELSE IF r.out = "NotFound" THEN Outcome(Ok(FALSE), io, st, ds)
        ELSE Outcome(Err(<<"Failed to check existence of", path, r.out>>),
                     io, st, ds)

do_delete_async(st, ds, path, fault) ==
    LET r == BackendDelete(st, path, fault)
        io == <<Io("delete", path, r.out)>>
    IN  IF r.out = "ok" THEN Outcome(Ok(TRUE), io, r.st, ds)
        ELSE Outcome(Err(<<"Failed to delete", path, r.out>>), io, r.st, ds)

\* the record do_stat_async builds: last_modified only when the backend
\* reports a time
stat_info(meta) ==
    LET base == [content_length |-> meta.content_length,
                 is_file |-> meta.is_file, is_dir |-> meta.is_dir]
    IN  IF meta.mtime # 0
        THEN base @@ ("last_modified" :> to_rfc3339(meta.mtime))
        ELSE base

do_stat_async(st, ds, path, fault) ==
    LET r == BackendStat(st, ds, path, fault)
        io == <<Io("stat", path, r.out)>>
    IN  IF r.out = "ok" THEN Outcome(Ok(stat_info(r.meta)), io, st, ds)
        ELSE Outcome(Err(<<"Failed to get stat for", path, r.out>>), io, st, ds)

do_create_dir_async(st, ds, path, fault) ==
    LET r == BackendCreateDir(ds, path, fault)
        io == <<Io("create_dir", path, r.out)>>
    IN  IF r.out = "ok" THEN Outcome(Ok(TRUE), io, st, r.ds)
        ELSE Outcome(Err(<<"Failed to create directory", path, r.out>>),
                     io, st, r.ds)

do_copy_async(st, ds, source, target, fault) ==
    LET r == BackendCopy(st, source, target, fault)
        io == <<Io("copy", source, r.out)>>
    IN  IF r.out = "ok" THEN Outcome(Ok(TRUE), io, r.st, ds)
        ELSE Outcome(Err(<<"Failed to copy from", source, "to", target, r.out>>),
                     io, r.st, ds)

do_rename_async(st, ds, source, target, fault) ==
    LET r == BackendRename(st, source, target, fault)
        io == <<Io("rename", source, r.out)>>
    IN  IF r.out = "ok" THEN Outcome(Ok(TRUE), io, r.st, ds)
        ELSE Outcome(Err(<<"Failed to rename from", source, "to", target, r.out>>),
                     io, r.st, ds)

\* the record pg_opendal_capability builds from the operator's capability
cap_info(c) ==
    [read |-> c.read, write |-> c.write, list |-> c.list, stat |-> c.stat,
     delete |-> c.delete, copy |-> c.copy, rename |-> c.rename,
     create_dir |-> c.create_dir]

\* ---------------------------------------------------------- do_list_async
N == Len(DirEntries)

RECURSIVE Sorted(_)
Sorted(S) ==
    IF S = {} THEN <<>>
    ELSE LET m == CHOOSE x \in S : \A y \in S : x <= y
         IN  <<m>> \o Sorted(S \ {m})

\* Lister::try_next.  The lister is lazy: when its buffer is empty it fetches
\* the next page, of k entries, of what the directory holds at that moment.
\* Entries are indices of DirEntries.
BackendNext(st, buf, cursor, k, fault) ==
    IF fault # "none"
    THEN [out |-> fault, some |-> FALSE, entry |-> 0, buf |-> buf, cursor |-> cursor]
    ELSE IF buf # <<>>
    THEN [out |-> "ok", some |-> TRUE, entry |-> Head(buf), buf |-> Tail(buf),
          cursor |-> cursor]
    ELSE LET rem == Sorted({i \in (cursor + 1)..N : st[DirEntries[i].path].present})
             page == SubSeq(rem, 1, IF k < Len(rem) THEN k ELSE Len(rem))
         IN  IF rem = <<>>
             THEN [out |-> "ok", some |-> FALSE, entry |-> 0, buf |-> buf,
                   cursor |-> cursor]
             ELSE [out |-> "ok", some |-> TRUE, entry |-> Head(page),
                   buf |-> Tail(page), cursor |-> page[Len(page)]]

\* Operator::lister
BackendLister(path, fault) == [out |-> IF fault # "none" THEN fault ELSE "ok"]

\* the record do_list_async builds for an entry from its own stat
entry_info_nostat(entry, meta) ==
    [name |-> entry.name, path |-> entry.path,
     is_file |-> TRUE, is_dir |-> FALSE, content_length |-> 0]

entry_info(entry, meta) ==
    LET base == [name |-> entry.name, path |-> entry.path,
                 is_file |-> meta.is_file, is_dir |-> meta.is_dir,
                 content_length |-> meta.content_length]
    IN  IF meta.mtime # 0
        THEN base @@ ("last_modified" :> to_rfc3339(meta.mtime))
        ELSE base

\* A list call in progress.  pc: "idle" (none), "iter" (at lister.try_next),
\* "stat" (at op.stat of entry cur), "done" (returned res).  quiet and
\* present0 are history: whether the store is as it was when the call began,
\* and the files it held then.
IdleList ==
    [pc |-> "idle", sc |-> GoodScenario, buf |-> <<>>, cursor |-> 0, cur |-> 0,
     results |-> <<>>, io |-> <<>>, res |-> Ok(<<>>), quiet |-> TRUE,
     present0 |-> {}]

Return(l, res, io) ==
    [l EXCEPT !.pc = "done", !.res = res, !.io = io, !.buf = <<>>,
              !.results = <<>>, !.cur = 0, !.cursor = 0]

\* line 183: op.lister(path)
list_start(sc, st, fault) ==
    LET r == BackendLister(Dir, fault)
        io == <<Io("lister", Dir, r.out)>>
        l == [IdleList EXCEPT !.sc = sc, !.io = io,
                              !.present0 = {p \in FilePaths : st[p].present}]
    IN  IF r.out = "ok" THEN [l EXCEPT !.pc = "iter"]
        ELSE Return(l, Err(<<"Failed to get lister for", Dir, r.out>>), io)

\* line 188: lister.try_next()
list_next(l, st, k, fault) ==
    LET r == BackendNext(st, l.buf, l.cursor, k, fault)
        io == Append(l.io, Io("next",
                              IF r.some THEN DirEntries[r.entry].path ELSE Dir,
                              IF r.out = "ok" /\ ~r.some THEN "end" ELSE r.out))
    IN  IF r.out # "ok"
        THEN Return(l, Err(<<"Failed to list contents of", Dir, r.out>>), io)
        ELSE IF ~r.some THEN Return(l, Ok(l.results), io)
        ELSE [l EXCEPT !.pc = "stat", !.cur = r.entry, !.buf = r.buf,
                       !.cursor = r.cursor, !.io = io]

\* lines 197-214: op.stat(entry.path()) and results.push
list_stat_skip(l, st, ds, fault) ==
    LET e == DirEntries[l.cur]
        r == BackendStat(st, ds, e.path, fault)
        io == Append(l.io, Io("stat", e.path, r.out))
    IN  IF r.out = "NotFound" THEN [l EXCEPT !.pc = "iter", !.io = io]
        ELSE IF r.out # "ok"
        THEN Return(l, Err(<<"Failed to get metadata for entry", e.path, r.out>>), io)
        ELSE [l EXCEPT !.pc = "iter", !.io = io,
                       !.results = Append(l.results, entry_info(e, r.meta))]

list_stat_partial(l, st, ds, fault) ==
    LET e == DirEntries[l.cur]
        r == BackendStat(st, ds, e.path, fault)
        io == Append(l.io, Io("stat", e.path, r.out))
    IN  IF r.out # "ok" THEN Return(l, Ok(l.results), io)
        ELSE [l EXCEPT !.pc = "iter", !.io = io,
                       !.results = Append(l.results, entry_info(e, r.meta))]

list_stat(l, st, ds, fault) ==
    LET e == DirEntries[l.cur]
        r == BackendStat(st, ds, e.path, fault)
        io == Append(l.io, Io("stat", e.path, r.out))
    IN  IF r.out # "ok"
        THEN Return(l, Err(<<"Failed to get metadata for entry", e.path, r.out>>), io)
        ELSE [l EXCEPT !.pc = "iter", !.io = io,
                       !.results = Append(l.results, entry_info(e, r.meta))]

\* ------------------------------------------------------------------ state
VARIABLES
    store,  \* the backend: file path -> Absent or File(bytes, mtime)
    dirs,   \* the backend: the directories created
    hist,   \* history, per file path: what last changed it
    last,   \* the call that returned last: arguments, result and what it did
    lst,    \* the list call in progress
    conv    \* a configuration value and what jsonb_to_hashmap made of it

vars == <<store, dirs, hist, last, lst, conv>>

\* hist[p].k: "none" (never changed), "written" (by a successful write of the
\* text c), "deleted" (by a successful delete), "other" (by a copy, a rename
\* or another client)
Hist(k, c) == [k |-> k, c |-> c]

\* A returned call.  built / rt: an Operator was constructed / a runtime was
\* created; io: the backend calls made; mutated: the backend changed.
Rec(op, sc, path, target, pre, res, io, mutated, l) ==
    [op |-> op, sc |-> sc, path |-> path, target |-> target, res |-> res,
     built |-> pre.built, rt |-> pre.rt, io |-> io, mutated |-> mutated,
     quiet |-> l.quiet, present0 |-> l.present0]

NoCall ==
    Rec("none", GoodScenario, "", "", [built |-> FALSE, rt |-> FALSE],
        Ok(<<>>), <<>>, FALSE, IdleList)
ConvIdle == [in |-> NonObject("null", ""), done |-> FALSE,
             out |-> [ok |-> FALSE, map |-> <<>>, err |-> <<>>]]

Init ==
    /\ store = [p \in FilePaths |-> Absent]
    /\ dirs = {}
    /\ hist = [p \in FilePaths |-> Hist("none", <<>>)]
    /\ last = NoCall
    /\ lst = IdleList
    /\ conv = ConvIdle

\* The body shared by the nine functions that run one async operation o after
\* the prelude: `?` returns the prelude's error before anything else is done.
Complete(op, sc, path, target, o) ==
    LET pre == Prelude(sc)
    IN  /\ last' = IF pre.ok
                   THEN Rec(op, sc, path, target, pre, o.res, o.io,
                            o.st # store \/ o.ds # dirs, IdleList)
                   ELSE Rec(op, sc, path, target, pre, Err(pre.err), <<>>,
                            FALSE, IdleList)
        /\ store' = IF pre.ok THEN o.st ELSE store
        /\ dirs' = IF pre.ok THEN o.ds ELSE dirs
        /\ lst' = IF lst.pc # "idle" /\ store' # store
                  THEN [lst EXCEPT !.quiet = FALSE] ELSE lst
        /\ UNCHANGED conv

pg_opendal_read(sc, path, fault) ==
    /\ Complete("read", sc, path, "", do_read_async(store, dirs, path, fault))
    /\ UNCHANGED hist

pg_opendal_write(sc, path, content, t, fault) ==
    /\ Complete("write", sc, path, "",
                do_write_async(store, dirs, path, as_bytes(content), t, fault))
    /\ hist' = IF last'.res.ok
               THEN [hist EXCEPT ![path] = Hist("written", content)] ELSE hist

pg_opendal_exists(sc, path, fault) ==
    /\ Complete("exists", sc, path, "", do_exists_async(store, dirs, path, fault))
    /\ UNCHANGED hist

pg_opendal_delete(sc, path, fault) ==
    /\ Complete("delete", sc, path, "", do_delete_async(store, dirs, path, fault))
    /\ hist' = IF last'.res.ok
               THEN [hist EXCEPT ![path] = Hist("deleted", <<>>)] ELSE hist

pg_opendal_stat(sc, path, fault) ==
    /\ Complete("stat", sc, path, "", do_stat_async(store, dirs, path, fault))
    /\ UNCHANGED hist

pg_opendal_create_dir(sc, path, fault) ==
    /\ Complete("create_dir", sc, path, "",
                do_create_dir_async(store, dirs, path, fault))
    /\ UNCHANGED hist

pg_opendal_copy(sc, source, target, fault) ==
    /\ Complete("copy", sc, source, target,
                do_copy_async(store, dirs, source, target, fault))
    /\ hist' = IF last'.res.ok
               THEN [hist EXCEPT ![target] = Hist("other", <<>>)] ELSE hist

pg_opendal_rename(sc, source, target, fault) ==
    /\ Complete("rename", sc, source, target,
                do_rename_async(store, dirs, source, target, fault))
    /\ hist' = IF last'.res.ok
               THEN [hist EXCEPT ![target] = Hist("other", <<>>),
                                 ![source] = Hist("other", <<>>)]
               ELSE hist

\* no runtime: the capability is read off the operator
pg_opendal_capability(sc) ==
    LET r == Resolve(sc)
        pre == [built |-> r.built, rt |-> FALSE]
    IN  /\ last' = IF r.ok
                   THEN Rec("capability", sc, "", "", pre,
                            Ok(cap_info(FullCapability)), <<>>, FALSE, IdleList)
                   ELSE Rec("capability", sc, "", "", pre, Err(r.err), <<>>,
                            FALSE, IdleList)
        /\ UNCHANGED <<store, dirs, hist, lst, conv>>

\* pg_opendal_list, one action per await of do_list_async.  A step that
\* returns records the call in last.
ListStep(l) ==
    /\ IF l.pc = "done"
       THEN /\ last' = Rec("list", l.sc, Dir, "", [built |-> TRUE, rt |-> TRUE],
                           l.res, l.io, FALSE, l)
            /\ lst' = IdleList
       ELSE /\ lst' = l
            /\ UNCHANGED last
    /\ UNCHANGED <<store, dirs, hist, conv>>

ListStart(sc, fault) ==
    /\ lst.pc = "idle"
    /\ LET pre == Prelude(sc)
       IN  IF pre.ok THEN ListStep(list_start(sc, store, fault))
           ELSE /\ last' = Rec("list", sc, Dir, "", pre, Err(pre.err), <<>>,
                               FALSE, IdleList)
                /\ UNCHANGED <<store, dirs, hist, lst, conv>>

ListNext(k, fault) ==
    /\ lst.pc = "iter"
    /\ ListStep(list_next(lst, store, k, fault))

ListStat(fault) ==
    /\ lst.pc = "stat"
    /\ ListStep(list_stat(lst, store, dirs, fault))

\* another client of the backend stores bytes at a path
ForeignPut(path, b) ==
    /\ store' = [store EXCEPT ![path] = File(b, 0)]
    /\ hist' = [hist EXCEPT ![path] = Hist("other", <<>>)]
    /\ lst' = IF lst.pc # "idle" /\ store' # store
              THEN [lst EXCEPT !.quiet = FALSE] ELSE lst
    /\ UNCHANGED <<dirs, last, conv>>

\* jsonb_to_hashmap applied to the configuration value drawn at the start
Convert ==
    /\ ~conv.done
    /\ conv' = [conv EXCEPT !.done = TRUE, !.out = jsonb_to_hashmap(conv.in)]
    /\ UNCHANGED <<store, dirs, hist, last, lst>>

\* ------------------------------------------------------- specifications
\* Spec: one caller reads, writes, deletes, copies, renames and stats files of
\* a backend it resolves successfully; another client stores foreign bytes.
Next ==
    \/ \E p \in FilePaths, f \in Faults : pg_opendal_read(GoodScenario, p, f)
    \/ \E p \in FilePaths, c \in Texts, f \in Faults :
          pg_opendal_write(GoodScenario, p, c, 0, f)
    \/ \E p \in FilePaths, f \in Faults : pg_opendal_exists(GoodScenario, p, f)
    \/ \E p \in FilePaths, f \in Faults : pg_opendal_delete(GoodScenario, p, f)
    \/ \E p \in FilePaths, f \in Faults : pg_opendal_stat(GoodScenario, p, f)
    \/ \E p \in FilePaths, q \in FilePaths, f \in Faults :
          pg_opendal_copy(GoodScenario, p, q, f)
    \/ \E p \in FilePaths, q \in FilePaths, f \in Faults :
          pg_opendal_rename(GoodScenario, p, q, f)
    \/ \E p \in FilePaths, b \in ForeignData : ForeignPut(p, b)

Spec == Init /\ [][Next]_vars

\* SpecGate: one caller calls each of the ten functions under every scenario
\* (configuration, backend kind, operator construction, runtime creation).
GateText == <<233>>
GatePath == "d/a"
GateTarget == "d/b"

NextGate ==
    \/ \E sc \in Scenarios : \E f \in FaultsOf(sc) : ListStart(sc, f)
    \/ \E k \in 1..N, f \in Faults : ListNext(k, f)
    \/ \E f \in Faults : ListStat(f)
    \/ /\ lst.pc = "idle"
       /\ \E sc \in Scenarios, f \in Faults :
            /\ f \in FaultsOf(sc)
            /\ \/ pg_opendal_read(sc, GatePath, f)
               \/ pg_opendal_write(sc, GatePath, GateText, 0, f)
               \/ \E p \in {GatePath, Dir} : pg_opendal_exists(sc, p, f)
               \/ pg_opendal_delete(sc, GatePath, f)
               \/ \E p \in {GatePath, Dir} : pg_opendal_stat(sc, p, f)
               \/ pg_opendal_create_dir(sc, Dir, f)
               \/ pg_opendal_copy(sc, GatePath, GateTarget, f)
               \/ pg_opendal_rename(sc, GatePath, GateTarget, f)
               \/ f = "none" /\ sc.rt = "ok" /\ pg_opendal_capability(sc)
    \/ /\ lst.pc = "idle"
       /\ \E b \in ForeignData : ForeignPut(GatePath, b)

SpecGate == Init /\ [][NextGate]_vars

\* SpecDir: one caller writes and deletes files under Dir and lists it; a list
\* call runs to its return before the next call.
NextDir ==
    \/ \E f \in Faults : ListStart(GoodScenario, f)
    \/ \E k \in 1..N, f \in Faults : ListNext(k, f)
    \/ \E f \in Faults : ListStat(f)
    \/ /\ lst.pc = "idle"
       /\ \E p \in FilePaths, c \in Texts, t \in Times :
             pg_opendal_write(GoodScenario, p, c, t, "none")
    \/ /\ lst.pc = "idle"
       /\ \E p \in FilePaths : pg_opendal_delete(GoodScenario, p, "none")

SpecDir == Init /\ [][NextDir]_vars

\* SpecRace: one caller lists Dir while others write and delete files under it;
\* their calls take effect between the awaits of do_list_async.  No fault is
\* injected: every backend call is answered from the store.
NextRace ==
    \/ ListStart(GoodScenario, "none")
    \/ \E k \in 1..N : ListNext(k, "none")
    \/ ListStat("none")
    \/ \E p \in FilePaths : pg_opendal_write(GoodScenario, p, GateText, 0, "none")
    \/ \E p \in FilePaths : pg_opendal_delete(GoodScenario, p, "none")

SpecRace == Init /\ [][NextRace]_vars

\* SpecConfig: jsonb_to_hashmap on every configuration value of JsonValues
InitConfig ==
    /\ store = [p \in FilePaths |-> Absent]
    /\ dirs = {}
    /\ hist = [p \in FilePaths |-> Hist("none", <<>>)]
    /\ last = NoCall
    /\ lst = IdleList
    /\ conv \in {[ConvIdle EXCEPT !.in = v] : v \in JsonValues}

NextConfig == Convert

SpecConfig == InitConfig /\ [][NextConfig]_vars

\* ================================================================ claims
Failed(io) == \E i \in 1..Len(io) : io[i].out \notin {"ok", "end"}
Injected(io) == \E i \in 1..Len(io) : io[i].out = "Unexpected"
BadConfig(c) == ~(c.t = "object" /\ AllStrings(c))
Mentions(msg, x) == \E i \in 1..Len(msg) : msg[i] = x

\* C1: a read of a path whose last change is a successful write of the text c
\* returns exactly c whenever the backend serves the read, and fails only when
\* the backend answers the read with a fault.
RoundTrip ==
    (last.op = "read" /\ hist[last.path].k = "written") =>
        IF last.io[1].out = "Unexpected" THEN ~last.res.ok
        ELSE /\ last.io[1].out = "ok"
             /\ last.res.ok
             /\ last.res.val = hist[last.path].c

RoundTripWitness ==
    /\ last.op = "read"
    /\ hist[last.path] = Hist("written", <<233>>)
    /\ store[last.path].data = <<195, 169>>
    /\ last.res.ok
    /\ last.res.val = <<233>>

\* C2: whenever the backend answers its stat, exists(path) returns false for a
\* file path nothing was ever written to, true for a path whose last change is
\* a successful write, and false for a path whose last change is a successful
\* delete.
ExistenceLifecycle ==
    (last.op = "exists" /\ last.path \in FilePaths /\ ~Injected(last.io)) =>
        /\ last.res.ok
        /\ hist[last.path].k = "none" => last.res.val = FALSE
        /\ hist[last.path].k = "written" => last.res.val = TRUE
        /\ hist[last.path].k = "deleted" => last.res.val = FALSE

ExistenceLifecycleWitness ==
    /\ last.op = "exists"
    /\ hist[last.path].k = "deleted"
    /\ last.res.ok
    /\ last.res.val = FALSE
    /\ \E q \in FilePaths : hist[q].k = "written" /\ store[q].present

\* C3: exists makes one backend call, a stat of its path, and returns true
\* exactly when that stat succeeds, false exactly when it fails with NotFound,
\* and an error exactly when it fails otherwise; stat returns an error when its
\* backend stat fails with NotFound.
ExistsFromStat ==
    /\ last.op = "exists" =>
          /\ Len(last.io) = 1
          /\ last.io[1].call = "stat" /\ last.io[1].path = last.path
          /\ (last.io[1].out = "ok") <=> (last.res.ok /\ last.res.val = TRUE)
          /\ (last.io[1].out = "NotFound") <=> (last.res.ok /\ last.res.val = FALSE)
          /\ (last.io[1].out \notin {"ok", "NotFound"}) <=> ~last.res.ok
    /\ (last.op = "stat" /\ last.io[1].out = "NotFound") =>
          /\ ~last.res.ok
          /\ last.res.err = <<"Failed to get stat for", last.path, "NotFound">>

ExistsFromStatWitness ==
    /\ last.op = "exists"
    /\ last.io[1].out = "Unexpected"
    /\ ~last.res.ok
    /\ store[last.path].present

\* C4: a call of any of the ten functions with a configuration that is not an
\* object, or has a non-string value, returns "Failed to parse config: ...",
\* constructs no operator, creates no runtime, makes no backend call and leaves
\* the backend as it was.
RejectedConfig ==
    (last.op # "none" /\ BadConfig(last.sc.config)) =>
        /\ ~last.res.ok
        /\ last.res.err[1] = "Failed to parse config"
        /\ ~last.built
        /\ ~last.rt
        /\ last.io = <<>>
        /\ ~last.mutated

RejectedConfigWitness ==
    /\ last.op = "write"
    /\ last.sc.config = BadValueConfig
    /\ ~last.res.ok
    /\ store[GatePath].present

\* C5 (as stated): a call with a backend kind that is not in the registry
\* returns the unsupported-backend error, with no operator, no runtime, no
\* backend call and no change of the backend.
UnknownBackendAlways ==
    (last.op # "none" /\ last.sc.service \notin Registry) =>
        /\ ~last.res.ok
        /\ last.res.err = <<"Failed to create operator", "Invalid service type",
                            last.sc.service, "unsupported scheme">>
        /\ ~last.built
        /\ ~last.rt
        /\ last.io = <<>>
        /\ ~last.mutated

\* C5 (amended): a call with a backend kind that is not in the registry fails
\* with no operator, no runtime, no backend call and no change of the backend;
\* the error is the unsupported-backend error when the configuration is well
\* formed, and the configuration error otherwise.
UnknownBackend ==
    (last.op # "none" /\ last.sc.service \notin Registry) =>
        /\ ~last.res.ok
        /\ IF BadConfig(last.sc.config)
           THEN last.res.err[1] = "Failed to parse config"
           ELSE last.res.err = <<"Failed to create operator",
                                 "Invalid service type", last.sc.service,
                                 "unsupported scheme">>
        /\ ~last.built
        /\ ~last.rt
        /\ last.io = <<>>
        /\ ~last.mutated

UnknownBackendWitness ==
    /\ last.op = "capability"
    /\ last.sc.service = "not-a-real-scheme"
    /\ last.sc.config = GoodConfig
    /\ ~last.res.ok
    /\ store[GatePath].present

\* the files the directory holds, as indices of DirEntries in enumeration order
Held == Sorted({i \in 1..N : store[DirEntries[i].path].present})
\* what an independent stat call on a path returns
StatOf(path) == do_stat_async(store, dirs, path, "none").res
SameMetadata(e, m) ==
    /\ e.content_length = m.content_length
    /\ e.is_file = m.is_file
    /\ e.is_dir = m.is_dir
    /\ ("last_modified" \in DOMAIN e) <=> ("last_modified" \in DOMAIN m)
    /\ "last_modified" \in DOMAIN e => e.last_modified = m.last_modified

\* C6: a list call that meets no backend fault succeeds, and a list call that
\* succeeds returns one entry per file the directory holds, in enumeration
\* order, each with the file's name and path and with the metadata an
\* independent stat of that path returns (last_modified present exactly when
\* the backend reports a time).
ListingComplete ==
    last.op = "list" =>
        /\ ~Injected(last.io) => last.res.ok
        /\ last.res.ok =>
              /\ Len(last.res.val) = Len(Held)
              /\ \A j \in 1..Len(Held) :
                    LET e == last.res.val[j]
                        d == DirEntries[Held[j]]
                    IN  /\ e.name = d.name
                        /\ e.path = d.path
                        /\ StatOf(d.path).ok
                        /\ SameMetadata(e, StatOf(d.path).val)
                        /\ ("last_modified" \in DOMAIN e) <=> (store[d.path].mtime # 0)

ListingCompleteWitness ==
    /\ last.op = "list"
    /\ last.res.ok
    /\ Len(last.res.val) = 2
    /\ last.res.val[1].content_length = 2
    /\ "last_modified" \in DOMAIN last.res.val[1]
    /\ last.res.val[2].content_length = 1
    /\ "last_modified" \notin DOMAIN last.res.val[2]

\* the entries lister.try_next yielded, in order
IsYield(x) == x.call = "next" /\ x.out = "ok"
Yielded(io) == SelectSeq(io, IsYield)

\* C7: a list call whose lister, enumeration step or per-entry stat fails
\* returns the error of that step and no entry; a list call that succeeds
\* returns one entry, in order, for every item the lister yielded.
ListAllOrNothing ==
    (last.op = "list" /\ last.built /\ last.rt) =>
        LET io == last.io
            z == io[Len(io)]
        IN  /\ Failed(io) =>
                 /\ ~last.res.ok
                 /\ last.res.val = <<>>
                 /\ z.out \notin {"ok", "end"}
                 /\ last.res.err =
                       <<CASE z.call = "lister" -> "Failed to get lister for"
                           [] z.call = "next" -> "Failed to list contents of"
                           [] z.call = "stat" -> "Failed to get metadata for entry",
                         z.path, z.out>>
            /\ last.res.ok =>
                 /\ ~Failed(io)
                 /\ Len(last.res.val) = Len(Yielded(io))
                 /\ \A j \in 1..Len(last.res.val) :
                       last.res.val[j].path = Yielded(io)[j].path

ListAllOrNothingWitness ==
    /\ last.op = "list"
    /\ ~last.res.ok
    /\ Len(last.io) = 5
    /\ last.io[3].call = "stat" /\ last.io[3].out = "ok"
    /\ last.io[5].call = "stat" /\ last.io[5].out = "Unexpected"

OpPhrases(op) ==
    CASE op = "read" -> {"Failed to read file"}
      [] op = "write" -> {"Failed to write to"}
      [] op = "exists" -> {"Failed to check existence of"}
      [] op = "delete" -> {"Failed to delete"}
      [] op = "stat" -> {"Failed to get stat for"}
      [] op = "create_dir" -> {"Failed to create directory"}
      [] op = "copy" -> {"Failed to copy from"}
      [] op = "rename" -> {"Failed to rename from"}
      [] op = "list" -> {"Failed to get lister for", "Failed to list contents of",
                         "Failed to get metadata for entry"}
      [] OTHER -> {}

\* C8 (as stated): the error string of every failed call names the operation,
\* each path the call was given (for list: the directory or the entry at
\* fault) and the cause.
ErrorNamesOperationPathCause ==
    (last.op # "none" /\ ~last.res.ok) =>
        /\ last.res.err[1] \in OpPhrases(last.op)
        /\ last.op \notin {"list", "capability"} =>
              Mentions(last.res.err, last.path)
        /\ last.op = "list" =>
              \E p \in StatPaths : Mentions(last.res.err, p)
        /\ last.op \in {"copy", "rename"} => Mentions(last.res.err, last.target)
        /\ Len(last.res.err) >= 2

\* C10: a list call whose per-entry stat is answered NotFound returns the error
\* "Failed to get metadata for entry <path>: NotFound" and no entry, that stat
\* being its last backend call; it happens only when the store changed after
\* the call began.
ListRace ==
    (last.op = "list" /\ \E i \in 1..Len(last.io) :
                            last.io[i].call = "stat" /\ last.io[i].out = "NotFound") =>
        LET z == last.io[Len(last.io)]
        IN  /\ z.call = "stat" /\ z.out = "NotFound"
            /\ ~last.res.ok
            /\ last.res.val = <<>>
            /\ last.res.err = <<"Failed to get metadata for entry", z.path, "NotFound">>
            /\ ~last.quiet

\* every file was there when the call began, one entry had been gathered, and
\* the entry at fault was deleted after lister.try_next yielded it
ListRaceWitness ==
    /\ last.op = "list"
    /\ ~last.res.ok
    /\ last.present0 = FilePaths
    /\ Len(last.io) = 5
    /\ last.io[3].call = "stat" /\ last.io[3].out = "ok"
    /\ last.io[4].call = "next" /\ last.io[4].out = "ok"
    /\ last.io[5].call = "stat" /\ last.io[5].out = "NotFound"
    /\ last.io[5].path = last.io[4].path
    /\ ~Injected(last.io)

ObjectOfStrings(v) == v.t = "object" /\ AllStrings(v)

\* C9 (as stated): an object of strings converts to the mapping with the same
\* keys and values; a non-object fails; an object with a non-string value
\* fails with an error that identifies an offending key.
ConfigErrorNamesKey ==
    conv.done =>
        /\ ObjectOfStrings(conv.in) =>
              /\ conv.out.ok
              /\ DOMAIN conv.out.map = DOMAIN conv.in.m
              /\ \A k \in DOMAIN conv.in.m : conv.out.map[k] = conv.in.m[k].s
        /\ conv.in.t # "object" => ~conv.out.ok
        /\ (conv.in.t = "object" /\ ~AllStrings(conv.in)) =>
              /\ ~conv.out.ok
              /\ \E k \in DOMAIN conv.in.m :
                    conv.in.m[k].t # "string" /\ Mentions(conv.out.err, k)

\* C9 (amended): an object of strings converts to the mapping with the same
\* keys and values; a non-object fails with "Config must be a JSON object"; an
\* object with a non-string value fails with "Config values must be strings",
\* which names no key.
ConfigResolved ==
    conv.done =>
        /\ ObjectOfStrings(conv.in) =>
              /\ conv.out.ok
              /\ DOMAIN conv.out.map = DOMAIN conv.in.m
              /\ \A k \in DOMAIN conv.in.m : conv.out.map[k] = conv.in.m[k].s
        /\ conv.in.t # "object" =>
              /\ ~conv.out.ok
              /\ conv.out.err = <<"Config must be a JSON object">>
        /\ (conv.in.t = "object" /\ ~AllStrings(conv.in)) =>
              /\ ~conv.out.ok
              /\ conv.out.err = <<"Config values must be strings">>
              /\ \A k \in DOMAIN conv.in.m : ~Mentions(conv.out.err, k)

ConfigResolvedWitness ==
    /\ conv.done
    /\ conv.in = BadValueConfig
    /\ ~conv.out.ok
    /\ conv.out.err = <<"Config values must be strings">>

====
